---- MODULE Spec2Model ----
(***************************************************************************)
(* State-machine model of src/app.py: the route planner behind the         *)
(* /plan_route endpoint (distance provider with haversine fallback,        *)
(* distance matrix, complete weighted graph, Prim MST, DFS ordering,       *)
(* Dijkstra cost accumulation, segment geometry).                          *)
(*                                                                         *)
(* Conventions.  Vertices are 0..n-1 as in the code; Python lists are TLA+ *)
(* sequences, so the Python element l[i] is l[i+1] here.  A distance in    *)
(* kilometres is a Python float: the model holds the exact value of the    *)
(* double and adds, divides and rounds as IEEE-754 arithmetic does (see    *)
(* "Python floats" below).  The payload of the routing service is a whole  *)
(* number of metres, as on the wire.  The set visited of prim_mst is       *)
(* CPython's hash table, so that "for u in visited" walks it in the order  *)
(* the interpreter does.                                                   *)
(***************************************************************************)
EXTENDS Integers, Sequences, FiniteSets, TLC

VARIABLES
    entry,           \* the function the caller entered
    pc,              \* position inside that function
    coords,          \* the coordinate list (a sequence of <<lat, lon>>)
    matrix,          \* build_distance_matrix: matrix[i][j]
    bi, bj,          \* build_distance_matrix: the loop variables i, j
    graph,           \* Graph: [num_vertices, adj]
    visited,         \* prim_mst: visited (the table of the set)
    mst_edges,       \* prim_mst: mst_edges, then plan_route's mst_edges
    start, end,      \* arguments of dfs_traversal / dijkstra
    visiting_order,  \* plan_route: visiting_order
    total_distance,  \* plan_route: total_distance (unrounded)
    route_coords,    \* plan_route: route_coords
    road_segments,   \* plan_route: road_segments
    call,            \* the external call made by the step just taken
    ret,             \* what the entered function returned
    status,          \* HTTP status of plan_route_endpoint's answer (0: none yet)
    core_invoked     \* whether plan_route has been called

vars == <<entry, pc, coords, matrix, bi, bj, graph, visited, mst_edges, start,
          end, visiting_order, total_distance, route_coords, road_segments,
          call, ret, status, core_invoked>>

(***************************************************************************)
(* Bounds of the model.                                                    *)
(***************************************************************************)
\* longest coordinate list drawn from Waypoints
MaxPts == 3
\* largest graph handed to prim_mst directly
MaxN == 4
\* largest edge weight of those graphs
MaxW == 1
\* largest graph handed to dijkstra directly
MaxDijkstraN == 3
\* largest edge weight of those graphs
MaxDijkstraW == 2
\* largest tree handed to dfs_traversal directly
MaxTreeN == 4

Range(s) == {s[k] : k \in 1..Len(s)}

(***************************************************************************)
(* Python floats.  A float of this program is float('inf') or a finite     *)
(* non-negative double.  A finite one is held exactly, as a multiple of    *)
(* 2^-80: five limbs, the least significant first, the first four of 20    *)
(* bits each and the fifth the whole part.  Every double from 2^-27 up to  *)
(* 2^30 has this form; the operators round as the hardware does, to 53     *)
(* significant bits, ties to even.                                         *)
(***************************************************************************)
Limb == 2^20

\* float(n) for an integer 0 <= n < 2^30
FromInt(n) == <<0, 0, 0, 0, n>>

\* 0.0
FZero == FromInt(0)

\* float('inf'): above every finite value the model forms
Inf == FromInt(2147483647)

\* a < b
FLess(a, b) ==
    IF a[5] # b[5] THEN a[5] < b[5]
    ELSE IF a[4] # b[4] THEN a[4] < b[4]
    ELSE IF a[3] # b[3] THEN a[3] < b[3]
    ELSE IF a[2] # b[2] THEN a[2] < b[2]
    ELSE a[1] < b[1]

\* a <= b
FLeq(a, b) == ~FLess(b, a)

\* the sum of two values as a real number, before any rounding
ExactSum(a, b) ==
    LET s1 == a[1] + b[1]
        s2 == a[2] + b[2] + s1 \div Limb
        s3 == a[3] + b[3] + s2 \div Limb
        s4 == a[4] + b[4] + s3 \div Limb
    IN <<s1 % Limb, s2 % Limb, s3 % Limb, s4 % Limb, a[5] + b[5] + s4 \div Limb>>

\* the number of binary digits of n
RECURSIVE Bits(_)
Bits(n) == IF n = 0 THEN 0 ELSE 1 + Bits(n \div 2)

\* the number of binary digits of the value counted in units of 2^-80
BitLength(a) ==
    IF a[5] # 0 THEN 80 + Bits(a[5])
    ELSE IF a[4] # 0 THEN 60 + Bits(a[4])
    ELSE IF a[3] # 0 THEN 40 + Bits(a[3])
    ELSE IF a[2] # 0 THEN 20 + Bits(a[2])
    ELSE Bits(a[1])

\* the value 2^k units
PowerOfTwo(k) == [i \in 1..5 |-> IF i = k \div 20 + 1 THEN 2^(k % 20) ELSE 0]

\* the double nearest to a real number of which a holds the digits down to
\* 2^-80 (sticky: digits below 2^-80 are not all zero): 53 significant
\* bits are kept, a tie goes to the even neighbour
RoundToDouble(a, sticky) ==
    LET k == BitLength(a) - 53
    IN IF k <= 0 THEN a
       ELSE LET j == k \div 20 + 1
                unit == 2^(k % 20)
                low == [i \in 1..5 |-> IF i < j THEN a[i] ELSE IF i = j THEN a[i] % unit ELSE 0]
                kept == [i \in 1..5 |-> a[i] - low[i]]
                half == PowerOfTwo(k - 1)
                odd == (a[j] \div unit) % 2 = 1
            IN IF FLess(half, low) \/ (low = half /\ (sticky \/ odd))
               THEN ExactSum(kept, PowerOfTwo(k))
               ELSE ExactSum(kept, FZero)

\* a + b of two floats
FAdd(a, b) == IF a = Inf \/ b = Inf THEN Inf ELSE RoundToDouble(ExactSum(a, b), FALSE)

\* a / d of a float and an integer 0 < d <= 1000
FDiv(a, d) ==
    LET n5 == a[5]
        n4 == (n5 % d) * Limb + a[4]
        n3 == (n4 % d) * Limb + a[3]
        n2 == (n3 % d) * Limb + a[2]
        n1 == (n2 % d) * Limb + a[1]
    IN RoundToDouble(<<n1 \div d, n2 \div d, n3 \div d, n4 \div d, n5 \div d>>, n1 % d # 0)

\* a * m as a real number, for an integer 0 <= m <= 1000
ExactTimes(a, m) ==
    LET p1 == a[1] * m
        p2 == a[2] * m + p1 \div Limb
        p3 == a[3] * m + p2 \div Limb
        p4 == a[4] * m + p3 \div Limb
    IN <<p1 % Limb, p2 % Limb, p3 % Limb, p4 % Limb, a[5] * m + p4 \div Limb>>

\* the integer nearest to a real number, a tie going to the even one
NearestInteger(a) ==
    LET frac == <<a[1], a[2], a[3], a[4], 0>>
        half == PowerOfTwo(79)
    IN a[5] + IF FLess(half, frac) \/ (frac = half /\ a[5] % 2 = 1) THEN 1 ELSE 0

(***************************************************************************)
(* Inputs: points, and what the routing service may answer.                *)
(***************************************************************************)
Waypoints == {<<0, 0>>, <<0, 1>>, <<1, 1>>}

Square == << <<0, 0>>, <<0, 1>>, <<1, 1>>, <<1, 0>> >>

Inputs == UNION {[1..k -> Waypoints] : k \in 0..MaxPts} \cup {Square}

\* haversine_distance on the points of the model: the double R * c that the
\* source's formula yields with R = 6371
HaversineTable(lat1, lon1, lat2, lon2) ==
    IF lat1 = lat2 /\ lon1 = lon2 THEN FZero
    \* one degree of longitude at latitude 0: 111.19492664455873
    ELSE IF lat1 = lat2 /\ lat1 = 0 THEN <<0, 720896, 420735, 204395, 111>>
    \* one degree of longitude at latitude 1: 111.17799068882648
    ELSE IF lat1 = lat2 THEN <<0, 606208, 801664, 186636, 111>>
    \* one degree of latitude: 111.19492664455873
    ELSE IF lon1 = lon2 THEN <<0, 720896, 420735, 204395, 111>>
    \* a diagonal of the unit cell: 157.24938127194397
    ELSE <<0, 1015808, 227131, 261495, 157>>

haversine_distance(lat1, lon1, lat2, lon2) == HaversineTable(lat1, lon1, lat2, lon2)

\* A response of requests.get: exc is the exception it raised ("none": it
\* returned), json_ok whether response.json() parses, has_routes whether the
\* body holds the key "routes", and each route may lack its "distance" or
\* its "geometry".
Route(hasd, d, hasg, g) ==
    [has_distance |-> hasd, distance |-> d, has_geometry |-> hasg, coordinates |-> g]

Response(e, s, j, c, hr, rs) ==
    [exc |-> e, status_code |-> s, json_ok |-> j, code |-> c, has_routes |-> hr, routes |-> rs]

NoRoutes == <<>>

\* metres the service reports for a driving route (more than any great circle here)
ServiceMetres == {300000}

\* the GeoJSON line the service reports from p1 to p2: [lon, lat] pairs, through a via point
ServiceLine(lat1, lon1, lat2, lon2) == << <<lon1, lat1>>, <<3, 2>>, <<lon2, lat2>> >>

\* a line with a coordinate of one number only
BrokenLine(lat1, lon1, lat2, lon2) == << <<lon1, lat1>>, <<3>> >>

FailedResponses(okRoute) ==
    { Response("ConnectionError", 0, FALSE, "", FALSE, NoRoutes),
      Response("Timeout", 0, FALSE, "", FALSE, NoRoutes),
      Response("none", 500, TRUE, "Ok", TRUE, <<okRoute>>),
      Response("none", 200, FALSE, "", FALSE, NoRoutes),
      Response("none", 200, TRUE, "NoRoute", FALSE, NoRoutes),
      Response("none", 200, TRUE, "NoRoute", TRUE, <<okRoute>>),
      Response("none", 200, TRUE, "Ok", FALSE, NoRoutes),
      Response("none", 200, TRUE, "Ok", TRUE, NoRoutes) }

DistanceResponses ==
    FailedResponses(Route(TRUE, 300000, FALSE, <<>>))
      \cup {Response("none", 200, TRUE, "Ok", TRUE, <<Route(FALSE, 0, FALSE, <<>>)>>)}
      \cup {Response("none", 200, TRUE, "Ok", TRUE, <<Route(TRUE, m, FALSE, <<>>)>>) : m \in ServiceMetres}

GeometryResponses(lat1, lon1, lat2, lon2) ==
    FailedResponses(Route(TRUE, 300000, TRUE, ServiceLine(lat1, lon1, lat2, lon2)))
      \cup {Response("none", 200, TRUE, "Ok", TRUE, <<Route(TRUE, 300000, FALSE, <<>>)>>),
            Response("none", 200, TRUE, "Ok", TRUE,
                     <<Route(TRUE, 300000, TRUE, BrokenLine(lat1, lon1, lat2, lon2))>>),
            Response("none", 200, TRUE, "Ok", TRUE,
                     <<Route(TRUE, 300000, TRUE, ServiceLine(lat1, lon1, lat2, lon2))>>)}

(***************************************************************************)
(* The distance provider.  A call returns [raised, value]: raised is TRUE  *)
(* when an exception leaves the function.                                  *)
(***************************************************************************)
Returned(v) == [raised |-> FALSE, value |-> v]

Raised == [raised |-> TRUE, value |-> FZero]

\* the body of the try block of get_distance_osrm: "raise" when a statement
\* of the block raises, "fall" when the block ends without returning
DistanceTry(resp) ==
    IF resp.exc # "none" THEN [how |-> "raise", value |-> FZero]
    ELSE IF resp.status_code # 200 THEN [how |-> "fall", value |-> FZero]
    ELSE IF ~resp.json_ok THEN [how |-> "raise", value |-> FZero]
    ELSE IF ~(resp.code = "Ok" /\ resp.has_routes /\ Len(resp.routes) > 0)
         THEN [how |-> "fall", value |-> FZero]
    ELSE IF ~resp.routes[1].has_distance THEN [how |-> "raise", value |-> FZero]
    ELSE [how |-> "return", value |-> FDiv(FromInt(resp.routes[1].distance), 1000)]

\* get_distance_osrm without its except clause
DistanceNoExcept(lat1, lon1, lat2, lon2, resp) ==
    LET t == DistanceTry(resp) IN
    IF t.how = "return" THEN Returned(t.value)
    ELSE IF t.how = "raise" THEN Raised
    ELSE Returned(haversine_distance(lat1, lon1, lat2, lon2))

get_distance_osrm(lat1, lon1, lat2, lon2, resp) ==
    LET t == DistanceTry(resp) IN
    IF t.how = "return" THEN Returned(t.value)
    ELSE Returned(haversine_distance(lat1, lon1, lat2, lon2))

\* [coord[1], coord[0]] for coord in geometry; IndexError on a short coord
SwapAll(geometry) == [k \in 1..Len(geometry) |-> <<geometry[k][2], geometry[k][1]>>]

GeometryTry(resp) ==
    IF resp.exc # "none" THEN [how |-> "raise", value |-> <<>>]
    ELSE IF resp.status_code # 200 THEN [how |-> "fall", value |-> <<>>]
    ELSE IF ~resp.json_ok THEN [how |-> "raise", value |-> <<>>]
    ELSE IF ~(resp.code = "Ok" /\ resp.has_routes /\ Len(resp.routes) > 0)
         THEN [how |-> "fall", value |-> <<>>]
    ELSE IF ~resp.routes[1].has_geometry THEN [how |-> "raise", value |-> <<>>]
    ELSE IF \E k \in 1..Len(resp.routes[1].coordinates) : Len(resp.routes[1].coordinates[k]) < 2
         THEN [how |-> "raise", value |-> <<>>]
    ELSE [how |-> "return", value |-> SwapAll(resp.routes[1].coordinates)]

\* get_route_geometry_osrm that keeps the service's [lon, lat] order
GeometryUnswapped(lat1, lon1, lat2, lon2, resp) ==
    LET t == GeometryTry(resp) IN
    IF t.how = "return" THEN [raised |-> FALSE, value |-> resp.routes[1].coordinates]
    ELSE [raised |-> FALSE, value |-> << <<lat1, lon1>>, <<lat2, lon2>> >>]

get_route_geometry_osrm(lat1, lon1, lat2, lon2, resp) ==
    LET t == GeometryTry(resp) IN
    IF t.how = "return" THEN [raised |-> FALSE, value |-> t.value]
    ELSE [raised |-> FALSE, value |-> << <<lat1, lon1>>, <<lat2, lon2>> >>]

(***************************************************************************)
(* Graph.                                                                  *)
(***************************************************************************)
Vertices(n) == 0..(n - 1)

\* Graph.__init__
NewGraph(n) == [num_vertices |-> n, adj |-> [v \in Vertices(n) |-> <<>>]]

\* Graph.add_edge
add_edge(g, u, v, weight) ==
    [g EXCEPT !.adj = [[@ EXCEPT ![u] = Append(@, <<v, weight>>)]
                          EXCEPT ![v] = Append(@, <<u, weight>>)]]

\* Graph.get_neighbors
get_neighbors(g, u) == g.adj[u]

\* plan_route, step 2: for i in range(n): for j in range(n): if i != j: add_edge;
\* k numbers the iterations of the two loops, i = k div n, j = k mod n
RECURSIVE GraphFromMatrix(_, _, _)
GraphFromMatrix(g, m, k) ==
    LET n == g.num_vertices
        i == k \div n
        j == k % n
    IN IF k >= n * n THEN g
       ELSE GraphFromMatrix(IF i # j THEN add_edge(g, i, j, m[i][j]) ELSE g, m, k + 1)

\* a graph built by one add_edge call per edge of a list of <<u, v, weight>>
RECURSIVE GraphFromEdges(_, _, _)
GraphFromEdges(g, es, k) ==
    IF k > Len(es) THEN g
    ELSE GraphFromEdges(add_edge(g, es[k][1], es[k][2], es[k][3]), es, k + 1)

(***************************************************************************)
(* A Python set of non-negative integers, as CPython keeps it: an open-    *)
(* addressing table of mask + 1 slots (a power of two, 8 at first).  The   *)
(* table is a sequence t, t[i + 1] the key in slot i or EmptySlot.         *)
(* hash(k) = k, a key goes to the first unused slot of its probe sequence, *)
(* the table is rebuilt four times as large as its keys when three fifths  *)
(* full, and iteration walks the slots in index order.  Nothing is ever    *)
(* removed from visited.                                                   *)
(***************************************************************************)
EmptySlot == 0 - 1

NewTable(size) == [i \in 1..size |-> EmptySlot]

\* set()
EmptySet == NewTable(8)

Mask(t) == Len(t) - 1

\* for u in s: the keys in slot order
SetOrder(t) == SelectSeq(t, LAMBDA key : key # EmptySlot)

\* the keys of the set
Elements(t) == Range(t) \ {EmptySlot}

\* len(s)
SetLen(t) == Len(SetOrder(t))

\* the first unused slot met from slot i on: up to 9 slots after i when they
\* all lie within the table, then the jump i = (5 i + 1 + perturb) & mask
\* with perturb shifted right by 5
RECURSIVE ProbeSlot(_, _, _)
ProbeSlot(t, i, perturb) ==
    LET last == IF i + 9 <= Mask(t) THEN i + 9 ELSE i
        unused == {j \in i..last : t[j + 1] = EmptySlot}
    IN IF unused # {} THEN CHOOSE j \in unused : \A x \in unused : j <= x
       ELSE ProbeSlot(t, (i * 5 + 1 + perturb \div 32) % Len(t), perturb \div 32)

\* a key that is not in the table takes its slot
InsertClean(t, key) == [t EXCEPT ![ProbeSlot(t, key % Len(t), key) + 1] = key]

\* the size of the rebuilt table: the least power of two above minused, from 8
RECURSIVE GrownSize(_, _)
GrownSize(size, minused) == IF size > minused THEN size ELSE GrownSize(size * 2, minused)

\* the keys of the old table are put into the new one in slot order
RECURSIVE Reinsert(_, _, _)
Reinsert(new, keys, k) ==
    IF k > Len(keys) THEN new ELSE Reinsert(InsertClean(new, keys[k]), keys, k + 1)

\* s.add(key)
SetAdd(t, key) ==
    IF key \in Elements(t) THEN t
    ELSE LET t1 == InsertClean(t, key)
             used == SetLen(t1)
         IN IF used * 5 < Mask(t1) * 3 THEN t1
            ELSE Reinsert(NewTable(GrownSize(8, IF used > 50000 THEN used * 2 ELSE used * 4)),
                          SetOrder(t1), 1)

(***************************************************************************)
(* prim_mst.                                                               *)
(***************************************************************************)
NoEdge == [found |-> FALSE, u |-> 0, v |-> 0, weight |-> Inf]

\* for v, weight in graph.get_neighbors(u): if v not in visited and weight < min_weight
RECURSIVE ScanNeighbors(_, _, _, _, _)
ScanNeighbors(nbrs, k, u, vis, best) ==
    IF k > Len(nbrs) THEN best
    ELSE LET v == nbrs[k][1]
             weight == nbrs[k][2]
         IN ScanNeighbors(nbrs, k + 1, u, vis,
                IF v \notin vis /\ FLess(weight, best.weight)
                THEN [found |-> TRUE, u |-> u, v |-> v, weight |-> weight]
                ELSE best)

\* for u in visited: ...
RECURSIVE ScanVisited(_, _, _, _, _)
ScanVisited(g, order, k, vis, best) ==
    IF k > Len(order) THEN best
    ELSE ScanVisited(g, order, k + 1, vis,
             ScanNeighbors(get_neighbors(g, order[k]), 1, order[k], vis, best))

\* a scan that keeps the first connecting edge it meets
FirstEdge(g, vis) ==
    LET cand == {<<u, k>> \in Elements(vis) \X (1..(2 * g.num_vertices)) :
                    k <= Len(g.adj[u]) /\ g.adj[u][k][1] \notin Elements(vis)}
    IN IF cand = {} THEN NoEdge
       ELSE LET c == CHOOSE c \in cand :
                        \A d \in cand : c[1] < d[1] \/ (c[1] = d[1] /\ c[2] <= d[2])
            IN [found |-> TRUE, u |-> c[1], v |-> g.adj[c[1]][c[2]][1],
                weight |-> g.adj[c[1]][c[2]][2]]

\* a loop guard that stops one vertex early
LoopStopsEarly(vis, n) == SetLen(vis) < n - 1

\* while len(visited) < n
PrimLoopContinues(vis, n) == SetLen(vis) < n

\* one pass of the while loop's scan: min_edge (NoEdge: None) and min_weight
MinEdge(g, vis) == ScanVisited(g, SetOrder(vis), 1, Elements(vis), NoEdge)

(***************************************************************************)
(* dijkstra.  previous[v] = -1 stands for None.                            *)
(***************************************************************************)
\* the unvisited vertex of least tentative distance, the lowest index on a
\* tie; -1 stands for None (every unvisited vertex is at float('inf'))
RECURSIVE SelectMin(_, _, _, _, _, _)
SelectMin(n, distances, vis, i, u, min_dist) ==
    IF i >= n THEN u
    ELSE IF i \notin vis /\ FLess(distances[i], min_dist)
         THEN SelectMin(n, distances, vis, i + 1, i, distances[i])
         ELSE SelectMin(n, distances, vis, i + 1, u, min_dist)

\* for v, weight in graph.get_neighbors(u): relax
RECURSIVE Relax(_, _, _, _)
Relax(nbrs, k, u, st) ==
    IF k > Len(nbrs) THEN st
    ELSE LET v == nbrs[k][1]
             alt == FAdd(st.distances[u], nbrs[k][2])
         IN Relax(nbrs, k + 1, u,
                IF v \notin st.visited /\ FLess(alt, st.distances[v])
                THEN [st EXCEPT !.distances[v] = alt, !.previous[v] = u]
                ELSE st)

\* the while loop of dijkstra
RECURSIVE DijkstraLoop(_, _, _)
DijkstraLoop(g, e, st) ==
    IF Cardinality(st.visited) >= g.num_vertices THEN st
    ELSE LET u == SelectMin(g.num_vertices, st.distances, st.visited, 0, -1, Inf)
         IN IF u = -1 \/ u = e THEN st
            ELSE DijkstraLoop(g, e,
                     Relax(get_neighbors(g, u), 1, u, [st EXCEPT !.visited = @ \cup {u}]))

\* path.insert(0, u) while u is not None
RECURSIVE PathTo(_, _)
PathTo(previous, u) == IF u = -1 THEN <<>> ELSE PathTo(previous, previous[u]) \o <<u>>

DijkstraRun(g, s, e) ==
    DijkstraLoop(g, e,
        [distances |-> [v \in Vertices(g.num_vertices) |-> IF v = s THEN FZero ELSE Inf],
         previous |-> [v \in Vertices(g.num_vertices) |-> -1],
         visited |-> {}])

\* a dijkstra that returns the weight of the direct edge
DijkstraDirect(g, s, e) ==
    [path |-> <<s, e>>,
     distance |-> IF s = e THEN FZero
                  ELSE IF \E k \in 1..Len(g.adj[s]) : g.adj[s][k][1] = e
                       THEN g.adj[s][CHOOSE k \in 1..Len(g.adj[s]) : g.adj[s][k][1] = e][2]
                       ELSE Inf]

dijkstra(g, s, e) ==
    LET st == DijkstraRun(g, s, e)
    IN [path |-> PathTo(st.previous, e), distance |-> st.distances[e]]

(***************************************************************************)
(* dfs_traversal.                                                          *)
(***************************************************************************)
\* an adjacency that stores each edge in its own direction only
RECURSIVE TreeAdjOneWay(_, _, _)
TreeAdjOneWay(adj, es, k) ==
    IF k > Len(es) THEN adj
    ELSE TreeAdjOneWay([adj EXCEPT ![es[k][1]] = Append(@, es[k][2])], es, k + 1)

\* adj = {i: [] for i in range(len(mst_edges) + 1)}, then both directions of each edge
RECURSIVE TreeAdj(_, _, _)
TreeAdj(adj, es, k) ==
    IF k > Len(es) THEN adj
    ELSE TreeAdj([[adj EXCEPT ![es[k][1]] = Append(@, es[k][2])]
                       EXCEPT ![es[k][2]] = Append(@, es[k][1])], es, k + 1)

\* the nested function dfs(u), and its for loop over adj[u]
RECURSIVE Dfs(_, _, _)
RECURSIVE DfsEach(_, _, _, _)
Dfs(adj, u, st) ==
    IF u \in st.visited THEN st
    ELSE DfsEach(adj, adj[u], 1,
             [visited |-> st.visited \cup {u}, order |-> Append(st.order, u)])

DfsEach(adj, nbrs, k, st) ==
    IF k > Len(nbrs) THEN st
    ELSE DfsEach(adj, nbrs, k + 1, Dfs(adj, nbrs[k], st))

\* dfs_traversal(mst_edges, start); a KeyError leaves the function when an
\* edge or the start names a vertex outside range(len(mst_edges) + 1)
dfs_traversal(es, s) ==
    LET keys == 0..Len(es)
    IN IF (\E k \in 1..Len(es) : es[k][1] \notin keys \/ es[k][2] \notin keys) \/ s \notin keys
       THEN [raised |-> TRUE, value |-> <<>>]
       ELSE Returned(Dfs(TreeAdj([i \in keys |-> <<>>], es, 1), s,
                         [visited |-> {}, order |-> <<>>]).order)

(***************************************************************************)
(* Inputs of the functions entered directly.                               *)
(***************************************************************************)
Pairs(n) == {p \in Vertices(n) \X Vertices(n) : p[1] < p[2]}

\* the symmetric, zero-diagonal n x n matrix whose entry for the pair i < j is
\* the whole number f[<<i, j>>]
SymMatrix(n, f) ==
    [i \in Vertices(n) |-> [j \in Vertices(n) |->
        IF i = j THEN FZero
        ELSE IF i < j THEN FromInt(f[<<i, j>>]) ELSE FromInt(f[<<j, i>>])]]

\* the complete graph as plan_route builds it from such a matrix
CompleteGraph(n, f) == GraphFromMatrix(NewGraph(n), SymMatrix(n, f), 0)

\* the pairs i < j in lexicographic order
PairSeq(n) ==
    LET all == [k \in 1..(n * n) |-> <<(k - 1) \div n, (k - 1) % n>>]
    IN SelectSeq(all, LAMBDA p : p[1] < p[2])

\* a graph that keeps the edges E only: one add_edge call, of weight 1, per edge
SparseGraph(n, E) ==
    LET kept == SelectSeq(PairSeq(n), LAMBDA p : p \in E)
    IN GraphFromEdges(NewGraph(n), [k \in 1..Len(kept) |-> <<kept[k][1], kept[k][2], FromInt(1)>>], 1)

\* the vertices that the edges E join to the vertices S, in at most the given rounds
RECURSIVE Reach(_, _, _)
Reach(E, S, rounds) ==
    IF rounds = 0 THEN S
    ELSE Reach(E, S \cup {e[2] : e \in {x \in E : x[1] \in S}}
                    \cup {e[1] : e \in {x \in E : x[2] \in S}}, rounds - 1)

\* n - 1 edges that join all of 0..n-1: a spanning tree
IsSpanningTree(n, es) == Len(es) = n - 1 /\ Reach(Range(es), {0}, n) = Vertices(n)

\* the directed pairs an edge list may hold
OrderedPairs(n) == {p \in Vertices(n) \X Vertices(n) : p[1] # p[2]}

(***************************************************************************)
(* Initial states: the caller enters one of the functions.                 *)
(***************************************************************************)
NoCall == [fn |-> "none"]

NoGraph == NewGraph(0)

\* [[0.0 for _ in range(n)] for _ in range(n)]
Zeros(n) == [i \in Vertices(n) |-> [j \in Vertices(n) |-> FZero]]

Idle ==
    /\ matrix = <<>> /\ bi = 0 /\ bj = 0
    /\ visiting_order = <<>> /\ total_distance = FZero
    /\ route_coords = <<>> /\ road_segments = <<>>
    /\ call = NoCall /\ ret = <<>> /\ status = 0 /\ core_invoked = FALSE

\* a POST to /plan_route whose body holds "coordinates"
InitEndpoint ==
    /\ entry = "plan_route_endpoint" /\ pc = "request"
    /\ coords \in Inputs
    /\ graph = NoGraph /\ visited = EmptySet /\ mst_edges = <<>> /\ start = 0 /\ end = 0
    /\ Idle

\* build_distance_matrix(coords): n and matrix are set, the loops begin
InitMatrix ==
    /\ entry = "build_distance_matrix" /\ pc = "matrix"
    /\ coords \in Inputs
    /\ graph = NoGraph /\ visited = EmptySet /\ mst_edges = <<>> /\ start = 0 /\ end = 0
    /\ visiting_order = <<>> /\ total_distance = FZero
    /\ route_coords = <<>> /\ road_segments = <<>>
    /\ call = NoCall /\ ret = <<>> /\ status = 0 /\ core_invoked = FALSE
    /\ matrix = Zeros(Len(coords)) /\ bi = 0 /\ bj = 1

\* prim_mst(graph): visited = {0}, mst_edges = []
InitPrim ==
    /\ entry = "prim_mst" /\ pc = "prim"
    /\ coords = <<>>
    /\ \/ \E n \in 1..MaxN : \E f \in [Pairs(n) -> 0..MaxW] : graph = CompleteGraph(n, f)
       \/ \E n \in 2..MaxN : \E E \in (SUBSET Pairs(n)) \ {Pairs(n)} : graph = SparseGraph(n, E)
    /\ visited = SetAdd(EmptySet, 0) /\ mst_edges = <<>> /\ start = 0 /\ end = 0
    /\ Idle

\* dijkstra(graph, start, end)
InitDijkstra ==
    /\ entry = "dijkstra" /\ pc = "dijkstra"
    /\ coords = <<>>
    /\ \E n \in 1..MaxDijkstraN : \E f \in [Pairs(n) -> 0..MaxDijkstraW] :
          graph = CompleteGraph(n, f)
    /\ start \in Vertices(graph.num_vertices) /\ end \in Vertices(graph.num_vertices)
    /\ visited = EmptySet /\ mst_edges = <<>>
    /\ Idle

\* dfs_traversal(mst_edges, start)
InitDfs ==
    /\ entry = "dfs_traversal" /\ pc = "dfs"
    /\ coords = <<>>
    /\ graph = NoGraph /\ visited = EmptySet
    /\ \E n \in 1..MaxTreeN : \E es \in [1..(n - 1) -> OrderedPairs(n)] :
          /\ IsSpanningTree(n, es)
          /\ mst_edges = es
          /\ start \in Vertices(n)
    /\ end = 0
    /\ Idle

Init == InitEndpoint \/ InitMatrix \/ InitPrim \/ InitDijkstra \/ InitDfs

(***************************************************************************)
(* plan_route_endpoint and plan_route.                                     *)
(***************************************************************************)
\* the endpoint's guard with the bound off by one: len(coords) < 1
RejectsEmptyOnly(cs) == Len(cs) < 1

\* plan_route_endpoint: if len(coords) < 2
EndpointRejects(cs) == Len(cs) < 2

\* an exception inside the entered function: the endpoint's except clause
\* answers 500; a function entered directly lets it out
Fail ==
    /\ pc' = IF entry = "plan_route_endpoint" THEN "done" ELSE "raised"
    /\ status' = IF entry = "plan_route_endpoint" THEN 500 ELSE status
    /\ ret' = [error |-> "exception", success |-> FALSE]

\* coords[:1] if coords else []
FirstOrNone(cs) == IF Len(cs) > 0 THEN <<cs[1]>> ELSE <<>>

\* plan_route_endpoint up to its call of plan_route, and plan_route up to
\* its call of build_distance_matrix
Endpoint ==
    /\ pc = "request"
    /\ call' = NoCall
    /\ UNCHANGED <<entry, coords, graph, visited, mst_edges, start, end, visiting_order,
                   total_distance, route_coords, road_segments>>
    /\ IF EndpointRejects(coords)
       THEN /\ status' = 400 /\ pc' = "done"
            /\ ret' = [error |-> "Please select at least 2 tourist spots",
                       visiting_order |-> <<0>>, route_coords |-> FirstOrNone(coords),
                       total_distance |-> 0]
            /\ UNCHANGED <<matrix, bi, bj, core_invoked>>
       ELSE /\ core_invoked' = TRUE
            /\ IF Len(coords) < 2
               THEN IF Len(coords) = 0
                    THEN Fail /\ UNCHANGED <<matrix, bi, bj>>
                    ELSE /\ status' = 200 /\ pc' = "done"
                         /\ ret' = [success |-> TRUE, visiting_order |-> <<0>>,
                                    route_coords |-> <<coords[1]>>, total_distance |-> 0,
                                    road_segments |-> <<>>]
                         /\ UNCHANGED <<matrix, bi, bj>>
               ELSE /\ matrix' = Zeros(Len(coords)) /\ bi' = 0 /\ bj' = 1
                    /\ pc' = "matrix"
                    /\ UNCHANGED <<status, ret>>

\* an assignment that forgets the mirrored entry
SetPairOneSide(m, i, j, distance) == [m EXCEPT ![i][j] = distance]

\* matrix[i][j] = distance; matrix[j][i] = distance
SetPair(m, i, j, distance) == [[m EXCEPT ![i][j] = distance] EXCEPT ![j][i] = distance]

\* build_distance_matrix: one iteration of the inner loop, one external call
DistanceCall ==
    /\ pc = "matrix" /\ bj < Len(coords)
    /\ \E resp \in DistanceResponses :
         LET p1 == coords[bi + 1]
             p2 == coords[bj + 1]
             out == get_distance_osrm(p1[1], p1[2], p2[1], p2[2], resp)
         IN /\ call' = [fn |-> "get_distance_osrm", p1 |-> p1, p2 |-> p2,
                        resp |-> resp, out |-> out]
            /\ IF out.raised
               THEN Fail /\ UNCHANGED <<matrix, bi, bj>>
               ELSE /\ matrix' = SetPair(matrix, bi, bj, out.value)
                    /\ IF bj + 1 < Len(coords)
                       THEN bi' = bi /\ bj' = bj + 1
                       ELSE bi' = bi + 1 /\ bj' = bi + 2
                    /\ UNCHANGED <<pc, status, ret>>
    /\ UNCHANGED <<entry, coords, graph, visited, mst_edges, start, end, visiting_order,
                   total_distance, route_coords, road_segments, core_invoked>>

\* build_distance_matrix: the loops are over, return matrix
MatrixReturn ==
    /\ pc = "matrix" /\ bj >= Len(coords)
    /\ call' = NoCall
    /\ IF entry = "build_distance_matrix"
       THEN pc' = "done" /\ ret' = matrix
       ELSE pc' = "graph" /\ UNCHANGED ret
    /\ UNCHANGED <<entry, coords, matrix, bi, bj, graph, visited, mst_edges, start, end,
                   visiting_order, total_distance, route_coords, road_segments, status,
                   core_invoked>>

\* plan_route, step 2, and the call of prim_mst up to its while loop
BuildGraph ==
    /\ pc = "graph"
    /\ graph' = GraphFromMatrix(NewGraph(Len(coords)), matrix, 0)
    /\ visited' = SetAdd(EmptySet, 0) /\ mst_edges' = <<>>
    /\ pc' = "prim"
    /\ UNCHANGED <<entry, coords, matrix, bi, bj, start, end, visiting_order,
                   total_distance, route_coords, road_segments, call, ret, status,
                   core_invoked>>

\* prim_mst: one iteration of the while loop that adds an edge
PrimStep ==
    /\ pc = "prim"
    /\ PrimLoopContinues(visited, graph.num_vertices)
    /\ LET m == MinEdge(graph, visited)
       IN /\ m.found
          /\ mst_edges' = Append(mst_edges, <<m.u, m.v>>)
          /\ visited' = SetAdd(visited, m.v)
    /\ UNCHANGED <<entry, pc, coords, matrix, bi, bj, graph, start, end, visiting_order,
                   total_distance, route_coords, road_segments, call, ret, status,
                   core_invoked>>

\* prim_mst: the loop ends (all visited, or break on min_edge is None), return mst_edges
PrimReturn ==
    /\ pc = "prim"
    /\ \/ ~PrimLoopContinues(visited, graph.num_vertices)
       \/ ~MinEdge(graph, visited).found
    /\ IF entry = "prim_mst"
       THEN pc' = "done" /\ ret' = mst_edges
       ELSE pc' = "dfs" /\ UNCHANGED ret
    /\ UNCHANGED <<entry, coords, matrix, bi, bj, graph, visited, mst_edges, start, end,
                   visiting_order, total_distance, route_coords, road_segments, call,
                   status, core_invoked>>

\* dfs_traversal(mst_edges, start) as a whole
DfsTraversal ==
    /\ pc = "dfs"
    /\ LET out == dfs_traversal(mst_edges, start)
       IN IF out.raised
          THEN Fail /\ UNCHANGED visiting_order
          ELSE /\ visiting_order' = out.value
               /\ IF entry = "dfs_traversal"
                  THEN pc' = "done" /\ ret' = out.value
                  ELSE pc' = "cost" /\ UNCHANGED ret
               /\ UNCHANGED status
    /\ UNCHANGED <<entry, coords, matrix, bi, bj, graph, visited, mst_edges, start, end,
                   total_distance, route_coords, road_segments, call, core_invoked>>

\* plan_route, step 5: one iteration of the loop over visiting_order
CostStep ==
    /\ pc = "cost"
    /\ LET i == Len(route_coords)
           current == visiting_order[i + 1]
       IN /\ route_coords' = Append(route_coords, coords[current + 1])
          /\ IF i < Len(visiting_order) - 1
             THEN /\ total_distance' =
                        FAdd(total_distance,
                             dijkstra(graph, current, visiting_order[i + 2]).distance)
                  /\ pc' = "cost"
             ELSE /\ UNCHANGED total_distance
                  /\ pc' = "geometry"
    /\ UNCHANGED <<entry, coords, matrix, bi, bj, graph, visited, mst_edges, start, end,
                   visiting_order, road_segments, call, ret, status, core_invoked>>

\* plan_route, step 6: one iteration, one external call
GeometryCall ==
    /\ pc = "geometry"
    /\ Len(road_segments) < Len(visiting_order) - 1
    /\ LET i == Len(road_segments)
           p1 == coords[visiting_order[i + 1] + 1]
           p2 == coords[visiting_order[i + 2] + 1]
       IN \E resp \in GeometryResponses(p1[1], p1[2], p2[1], p2[2]) :
            LET out == get_route_geometry_osrm(p1[1], p1[2], p2[1], p2[2], resp)
            IN /\ call' = [fn |-> "get_route_geometry_osrm", p1 |-> p1, p2 |-> p2,
                           resp |-> resp, out |-> out]
               /\ IF out.raised
                  THEN Fail /\ UNCHANGED road_segments
                  ELSE /\ road_segments' = Append(road_segments, out.value)
                       /\ UNCHANGED <<pc, status, ret>>
    /\ UNCHANGED <<entry, coords, matrix, bi, bj, graph, visited, mst_edges, start, end,
                   visiting_order, total_distance, route_coords, core_invoked>>

\* round(total_distance): whole kilometres, in hundredths
RoundToKm(x) == NearestInteger(x) * 100

\* round(x, 2), as the number of hundredths of the float it returns: the
\* decimal of two places nearest to the exact value of the double x, a tie
\* going to the even hundredth
Round2(x) == NearestInteger(ExactTimes(x, 100))

\* plan_route returns its dictionary and the endpoint answers 200
PlanReturn ==
    /\ pc = "geometry"
    /\ Len(road_segments) >= Len(visiting_order) - 1
    /\ call' = NoCall
    /\ ret' = [success |-> TRUE, visiting_order |-> visiting_order,
               route_coords |-> route_coords, total_distance |-> Round2(total_distance),
               road_segments |-> road_segments]
    /\ status' = 200 /\ pc' = "done"
    /\ UNCHANGED <<entry, coords, matrix, bi, bj, graph, visited, mst_edges, start, end,
                   visiting_order, total_distance, route_coords, road_segments,
                   core_invoked>>

\* dijkstra(graph, start, end) as a whole
DijkstraCall ==
    /\ pc = "dijkstra"
    /\ ret' = dijkstra(graph, start, end)
    /\ pc' = "done"
    /\ UNCHANGED <<entry, coords, matrix, bi, bj, graph, visited, mst_edges, start, end,
                   visiting_order, total_distance, route_coords, road_segments, call,
                   status, core_invoked>>

Next ==
    \/ Endpoint
    \/ DistanceCall
    \/ MatrixReturn
    \/ BuildGraph
    \/ PrimStep
    \/ PrimReturn
    \/ DfsTraversal
    \/ CostStep
    \/ GeometryCall
    \/ PlanReturn
    \/ DijkstraCall

Spec == Init /\ [][Next]_vars

(***************************************************************************)
(* Vocabulary of the properties.                                           *)
(***************************************************************************)
\* the weight the graph stores for the edge u - v
WeightOf(g, u, v) ==
    LET k == CHOOSE k \in 1..Len(g.adj[u]) : g.adj[u][k][1] = v IN g.adj[u][k][2]

\* every two distinct vertices are joined, by finite non-negative weights
IsComplete(g) ==
    \A u \in Vertices(g.num_vertices) :
       /\ \A v \in Vertices(g.num_vertices) \ {u} :
             \E k \in 1..Len(g.adj[u]) : g.adj[u][k][1] = v
       /\ \A k \in 1..Len(g.adj[u]) : FLeq(FZero, g.adj[u][k][2]) /\ FLess(g.adj[u][k][2], Inf)

\* matrix[i][j] as the graph holds it
Direct(g, i, j) == IF i = j THEN FZero ELSE WeightOf(g, i, j)

\* no edge of the list closes a cycle with the edges before it
Acyclic(n, es) ==
    \A k \in 1..Len(es) :
        es[k][2] \notin Reach(Range(SubSeq(es, 1, k - 1)), {es[k][1]}, n)

IsPermutation(order, n) == Len(order) = n /\ Range(order) = Vertices(n)

RECURSIVE TreeWeight(_, _, _)
TreeWeight(g, es, k) ==
    IF k > Len(es) THEN FZero
    ELSE ExactSum(WeightOf(g, es[k][1], es[k][2]), TreeWeight(g, es, k + 1))

\* every spanning tree of the complete graph on n vertices, as a list of pairs i < j
SpanningTreesOf ==
    [n \in 1..MaxN |->
        {SelectSeq(PairSeq(n), LAMBDA p : p \in T) :
            T \in {U \in SUBSET Pairs(n) :
                      Cardinality(U) = n - 1 /\ Reach(U, {0}, n) = Vertices(n)}}]

\* the weights of a complete graph on n vertices as one list, that of the
\* edge u - v at Slot(n, u, v)
Slot(n, u, v) == u * n + v + 1

WeightTable(g) ==
    LET n == g.num_vertices
    IN [k \in 1..(n * n) |-> Direct(g, (k - 1) \div n, (k - 1) % n)] \o <<>>

\* the spanning trees as lists of slots of such a list
TreeSlots ==
    [n \in 1..MaxN |->
        {[k \in 1..Len(t) |-> Slot(n, t[k][1], t[k][2])] \o <<>> : t \in SpanningTreesOf[n]}]

\* the total weight of the edges at the slots, the weights added limb by
\* limb, the carries done at the end
RECURSIVE LimbSums(_, _, _)
LimbSums(w, slots, k) ==
    IF k > Len(slots) THEN FZero
    ELSE LET a == w[slots[k]]
             b == LimbSums(w, slots, k + 1)
         IN <<a[1] + b[1], a[2] + b[2], a[3] + b[3], a[4] + b[4], a[5] + b[5]>>

SlotsWeight(w, slots) == ExactSum(LimbSums(w, slots, 1), FZero)

\* no spanning tree weighs less than the edges es
IsLeastTree(g, es) ==
    LET n == g.num_vertices
        w == WeightTable(g)
        mine == SlotsWeight(w, [k \in 1..Len(es) |-> Slot(n, es[k][1], es[k][2])])
    IN \A t \in TreeSlots[n] : FLeq(mine, SlotsWeight(w, t))

\* every path without repeated vertex from s to e in a graph on n vertices
SimplePathsOf ==
    [n \in 1..MaxDijkstraN |-> [s \in Vertices(n) |-> [e \in Vertices(n) |->
        {p \in UNION {[1..k -> Vertices(n)] : k \in 1..n} :
            /\ p[1] = s /\ p[Len(p)] = e
            /\ \A a, b \in 1..Len(p) : a # b => p[a] # p[b]}]]]

\* the weight of the path p from its k-th vertex on
RECURSIVE PathWeight(_, _, _, _)
PathWeight(w, n, p, k) ==
    IF k >= Len(p) THEN FZero
    ELSE ExactSum(w[Slot(n, p[k], p[k + 1])], PathWeight(w, n, p, k + 1))

\* d is the least weight over all paths from s to e
IsShortestDistance(g, s, e, d) ==
    LET w == WeightTable(g)
        n == g.num_vertices
        paths == SimplePathsOf[n][s][e]
    IN /\ \E p \in paths : PathWeight(w, n, p, 1) = d
       /\ \A p \in paths : FLeq(d, PathWeight(w, n, p, 1))

\* the weights obey the triangle inequality
Triangle(g) ==
    LET w == WeightTable(g)
        n == g.num_vertices
    IN \A a, b, c \in Vertices(n) :
          FLeq(w[Slot(n, a, c)], ExactSum(w[Slot(n, a, b)], w[Slot(n, b, c)]))

\* prim_mst has just returned mst_edges
PrimReturned ==
    \/ entry = "prim_mst" /\ pc = "done"
    \/ entry = "plan_route_endpoint" /\ pc = "dfs"

\* dfs_traversal has just ended
DfsEnded ==
    \/ entry = "dfs_traversal" /\ pc \in {"done", "raised"}
    \/ entry = "plan_route_endpoint" /\ pc = "cost" /\ route_coords = <<>>

\* build_distance_matrix has just returned matrix
MatrixReturned ==
    \/ entry = "build_distance_matrix" /\ pc = "done"
    \/ entry = "plan_route_endpoint" /\ pc = "graph"

\* the outcomes of the external call that count as a failure of the service
FailureOutcome(resp, wantsGeometry) ==
    \/ resp.exc # "none"
    \/ resp.status_code # 200
    \/ ~resp.json_ok
    \/ resp.code # "Ok"
    \/ ~resp.has_routes
    \/ resp.routes = <<>>
    \/ /\ resp.routes # <<>>
       /\ IF wantsGeometry
          THEN \/ ~resp.routes[1].has_geometry
               \/ \E k \in 1..Len(resp.routes[1].coordinates) :
                     Len(resp.routes[1].coordinates[k]) # 2
          ELSE ~resp.routes[1].has_distance

\* C1: on a complete graph with finite non-negative weights prim_mst returns
\* exactly N-1 edges, which close no cycle and join all of 0..N-1.
C1_PrimReturnsSpanningTree ==
    (PrimReturned /\ IsComplete(graph)) =>
        /\ Len(mst_edges) = graph.num_vertices - 1
        /\ Acyclic(graph.num_vertices, mst_edges)
        /\ Reach(Range(mst_edges), {0}, graph.num_vertices) = Vertices(graph.num_vertices)

C1_Witness ==
    /\ entry = "prim_mst" /\ pc = "done" /\ IsComplete(graph)
    /\ graph.num_vertices >= 4
    /\ Len(ret) = graph.num_vertices - 1
    /\ \E k \in 1..Len(ret) : ret[k][1] # 0

\* C2: for a spanning tree on 0..N-1 and any start vertex, dfs_traversal
\* returns a sequence of length N holding each vertex once, the start first.
C2_DfsIsPermutationFromStart ==
    (DfsEnded /\ IsSpanningTree(Len(mst_edges) + 1, mst_edges)) =>
        /\ pc # "raised"
        /\ IsPermutation(visiting_order, Len(mst_edges) + 1)
        /\ visiting_order[1] = start

C2_Witness ==
    /\ entry = "dfs_traversal" /\ pc = "done"
    /\ Len(mst_edges) >= 3 /\ start # 0
    /\ \E k \in 1..Len(mst_edges) : mst_edges[k][2] = start
    /\ IsPermutation(ret, Len(mst_edges) + 1)

\* C3 as stated: dijkstra(graph, i, j) on the complete graph of a symmetric,
\* zero-diagonal, non-negative matrix returns the distance matrix[i][j].
C3_DijkstraEqualsMatrixEntry ==
    (entry = "dijkstra" /\ pc = "done") => ret.distance = Direct(graph, start, end)

\* C3 amended: dijkstra returns the least weight over all paths from i to j,
\* which is never more than matrix[i][j] and equals it when the matrix obeys
\* the triangle inequality.
C3_DijkstraIsShortestPath ==
    (entry = "dijkstra" /\ pc = "done") =>
        /\ IsShortestDistance(graph, start, end, ret.distance)
        /\ FLeq(ret.distance, Direct(graph, start, end))
        /\ Triangle(graph) => ret.distance = Direct(graph, start, end)

C3_Witness ==
    /\ entry = "dijkstra" /\ pc = "done"
    /\ FLess(ret.distance, Direct(graph, start, end))
    /\ Len(ret.path) = 3
    /\ FLess(FZero, ret.distance)

\* C4: on every failure outcome of the external call get_distance_osrm returns
\* the haversine value of the two points and get_route_geometry_osrm returns
\* [[lat1, lon1], [lat2, lon2]], and no error reaches the caller.
C4_FailureFallsBack ==
    /\ (call.fn = "get_distance_osrm" /\ FailureOutcome(call.resp, FALSE)) =>
          /\ call.out = Returned(HaversineTable(call.p1[1], call.p1[2], call.p2[1], call.p2[2]))
          /\ pc # "raised" /\ status # 500
    /\ (call.fn = "get_route_geometry_osrm" /\ FailureOutcome(call.resp, TRUE)) =>
          /\ call.out = Returned(<<call.p1, call.p2>>)
          /\ pc # "raised" /\ status # 500

C4_Witness ==
    /\ call.fn = "get_distance_osrm"
    /\ call.resp.exc = "none" /\ call.resp.status_code = 200 /\ call.resp.code = "Ok"
    /\ call.resp.routes # <<>> /\ ~call.resp.routes[1].has_distance
    /\ call.out.value = HaversineTable(0, 0, 1, 1)
    /\ matrix[0][1] = FromInt(300)

\* C5: when prim_mst finds no edge from a visited to an unvisited vertex
\* before all vertices are visited, the run is aborted: prim_mst does not
\* return a partial tree.
C5_NoPartialTreeReturned ==
    ~(PrimReturned /\ SetLen(visited) < graph.num_vertices)

\* the distance matrix when every distance call falls back
HaversineMatrix(cs) ==
    [i \in Vertices(Len(cs)) |-> [j \in Vertices(Len(cs)) |->
        HaversineTable(cs[i + 1][1], cs[i + 1][2], cs[j + 1][1], cs[j + 1][2])]]

\* the square was planned with the service failing on every call (a distance
\* the service reports is none of the haversine values, a line it reports
\* has three points)
SquarePlannedOffline ==
    /\ entry = "plan_route_endpoint" /\ pc = "done" /\ status = 200
    /\ coords = Square
    /\ matrix = HaversineMatrix(coords)
    /\ \A k \in 1..Len(road_segments) : Len(road_segments[k]) = 2

RECURSIVE HopSum(_, _, _)
HopSum(m, order, k) ==
    IF k >= Len(order) THEN FZero
    ELSE ExactSum(m[order[k]][order[k + 1]], HopSum(m, order, k + 1))

\* C6 as stated: for the square with the service unavailable the visiting
\* order holds the 4 vertices once each and total_distance is the sum of the
\* weights of the 3 edges prim_mst returned.
C6_TotalIsTreeWeight ==
    SquarePlannedOffline =>
        /\ IsPermutation(ret.visiting_order, 4)
        /\ ret.total_distance = Round2(TreeWeight(graph, mst_edges, 1))

\* C6 amended: the visiting order is 0, 1, 3, 2 and total_distance is the
\* rounded sum of the distances between consecutive vertices of that order,
\* 379.62 km: the hop 1 -> 3 is a diagonal, which is no edge of the tree.
C6_TotalIsHopSum ==
    SquarePlannedOffline =>
        /\ IsPermutation(ret.visiting_order, 4)
        /\ ret.visiting_order = <<0, 1, 3, 2>>
        /\ ret.total_distance = Round2(HopSum(matrix, ret.visiting_order, 1))
        /\ ret.total_distance = 37962
        /\ ret.total_distance > Round2(TreeWeight(graph, mst_edges, 1))

C6_Witness ==
    /\ SquarePlannedOffline
    /\ mst_edges = <<<<0, 1>>, <<0, 3>>, <<3, 2>>>>
    /\ Len(ret.road_segments) = 3

\* what a geometry call for p1, p2 can hand back: the straight line or the service's line
Fetchable(p1, p2) == {<<p1, p2>>, <<p1, <<2, 3>>, p2>>}

\* C7: for N >= 2 points, whatever the external calls do, plan_route returns a
\* visiting_order that is a permutation of 0..N-1, route_coords whose k-th
\* element is coords[visiting_order[k]], and N-1 road_segments, the k-th being
\* the geometry fetched for (visiting_order[k], visiting_order[k+1]).
C7_PlanShape ==
    /\ (entry = "plan_route_endpoint" /\ pc = "done" /\ Len(coords) >= 2) =>
          /\ status = 200
          /\ IsPermutation(ret.visiting_order, Len(coords))
          /\ Len(ret.route_coords) = Len(coords)
          /\ \A k \in 1..Len(coords) : ret.route_coords[k] = coords[ret.visiting_order[k] + 1]
          /\ Len(ret.road_segments) = Len(coords) - 1
          /\ \A k \in 1..(Len(coords) - 1) :
                ret.road_segments[k] \in Fetchable(coords[ret.visiting_order[k] + 1],
                                                   coords[ret.visiting_order[k + 1] + 1])
    /\ (call.fn = "get_route_geometry_osrm" /\ pc = "geometry") =>
          /\ road_segments[Len(road_segments)] = call.out.value
          /\ call.p1 = coords[visiting_order[Len(road_segments)] + 1]
          /\ call.p2 = coords[visiting_order[Len(road_segments) + 1] + 1]

C7_Witness ==
    /\ entry = "plan_route_endpoint" /\ pc = "done" /\ status = 200
    /\ Len(coords) = 3
    /\ Len(ret.road_segments[1]) = 3 /\ Len(ret.road_segments[2]) = 2
    /\ ret.visiting_order = <<0, 2, 1>>

\* C8: for N >= 1, whatever each distance call returns, the matrix that
\* build_distance_matrix returns has a zero diagonal and is symmetric.
C8_MatrixSymmetricZeroDiagonal ==
    MatrixReturned =>
        \A i, j \in Vertices(Len(coords)) : matrix[i][i] = FZero /\ matrix[i][j] = matrix[j][i]

C8_Witness ==
    /\ entry = "build_distance_matrix" /\ pc = "done"
    /\ Len(coords) = 3
    /\ ret[0][1] = FromInt(300) /\ ret[1][0] = FromInt(300)
    /\ ret[1][2] = HaversineTable(0, 1, 1, 1)

\* C9: a request whose coordinate list has fewer than 2 points is answered
\* with status 400 and plan_route is never called for it.
C9_ShortListRejected ==
    (entry = "plan_route_endpoint" /\ Len(coords) < 2) =>
        /\ ~core_invoked
        /\ pc = "done" => status = 400

C9_Witness ==
    /\ entry = "plan_route_endpoint" /\ pc = "done"
    /\ Len(coords) = 1 /\ status = 400 /\ ~core_invoked

\* the set visited before the k-th edge was added
VisitedBefore(es, k) == {0} \cup {es[j][2] : j \in 1..(k - 1)}

\* C10: on a complete graph with non-negative weights, ties included, every
\* edge prim_mst adds is of least weight among the edges from a visited to an
\* unvisited vertex at that step, and the returned edges weigh as little as
\* any spanning tree.
C10_PrimIsGreedyAndMinimal ==
    (PrimReturned /\ IsComplete(graph) /\ graph.num_vertices \in DOMAIN SpanningTreesOf) =>
        /\ \A k \in 1..Len(mst_edges) :
              LET S == VisitedBefore(mst_edges, k)
              IN /\ mst_edges[k][1] \in S /\ mst_edges[k][2] \notin S
                 /\ \A u \in S : \A v \in Vertices(graph.num_vertices) \ S :
                       FLeq(WeightOf(graph, mst_edges[k][1], mst_edges[k][2]),
                            WeightOf(graph, u, v))
        /\ IsLeastTree(graph, mst_edges)

C10_Witness ==
    /\ entry = "prim_mst" /\ pc = "done" /\ IsComplete(graph)
    /\ graph.num_vertices >= 4
    /\ WeightOf(graph, 0, 1) = WeightOf(graph, 0, 2) /\ WeightOf(graph, 0, 3) = WeightOf(graph, 0, 1)
    /\ FLess(WeightOf(graph, 1, 2), WeightOf(graph, 0, 1))
    /\ FLess(TreeWeight(graph, ret, 1),
             ExactSum(WeightOf(graph, 0, 1), ExactSum(WeightOf(graph, 0, 2), WeightOf(graph, 0, 3))))

====
